---- MODULE Spec2Model ----
(***************************************************************************)
(* Model of ibis/impala/ddl.py: the Impala DDL/DML statement compilers.    *)
(*                                                                         *)
(* A text (Python str) is a sequence of lexemes.  A lexeme is a word or a  *)
(* single punctuation character of one of the module's format strings, or *)
(* a caller-supplied string taken as an atom.  Concatenation of texts is   *)
(* concatenation of sequences, so a stray or a missing space, quote, comma *)
(* or newline is visible in the model.                                     *)
(*                                                                         *)
(* The life of one statement object is modelled: it is constructed from    *)
(* caller-supplied arguments, then compiled once.  Module-level functions  *)
(* are called once with caller-supplied arguments.                         *)
(***************************************************************************)
EXTENDS Integers, Sequences, FiniteSets, TLC

VARIABLES obj, result

vars == <<obj, result>>

(***************************************************************************)
(* Bounds of the model.                                                    *)
(***************************************************************************)
\* largest number of entries of a property map passed to the serializer
MaxProps == 3
\* largest number of entries of a property map given to AlterTable
MaxAlterProps == 1
\* largest number of columns of a partition schema
MaxCols == 3
\* largest number of entries / values of a partition spec
MaxSpec == 3
\* largest number of columns of the partition schema of a statement
MaxStmtCols == 2
\* largest number of entries / values of the partition spec of a statement
MaxStmtSpec == 1
\* largest number of input types of a function signature
MaxInputs == 2

(***************************************************************************)
(* Python values.                                                          *)
(***************************************************************************)
\* None, and an optional argument that is given
None == <<>>
Some(x) == <<x>>
IsNone(o) == o = None
Get(o) == o[1]

\* a Python int or a Python str
PyInt(n) == [kind |-> "int", n |-> n, s |-> ""]
PyString(s) == [kind |-> "str", n |-> 0, s |-> s]

Digits == <<"0", "1", "2", "3", "4", "5", "6", "7", "8", "9">>

RECURSIVE NatToText(_)
NatToText(n) ==
    IF n < 10 THEN <<Digits[n + 1]>>
    ELSE NatToText(n \div 10) \o <<Digits[(n % 10) + 1]>>

\* str(v), which is also what '{}'.format(v) inserts
PyStr(v) ==
    IF v.kind = "int"
    THEN IF v.n < 0 THEN <<"-">> \o NatToText(0 - v.n) ELSE NatToText(v.n)
    ELSE <<v.s>>

\* the code points of the strings used as property keys and values
CodePoints(s) ==
    CASE s = "B" -> <<66>>
      [] s = "a" -> <<97>>
      [] s = "ab" -> <<97, 98>>
      [] s = "b" -> <<98>>
      [] s = "x" -> <<120>>
      [] s = "y" -> <<121>>

RECURSIVE SeqLess(_, _)
SeqLess(a, b) ==
    IF b = <<>> THEN FALSE
    ELSE IF a = <<>> THEN TRUE
    ELSE IF a[1] # b[1] THEN a[1] < b[1]
    ELSE SeqLess(Tail(a), Tail(b))

\* str < str: lexicographic by code point
StrLess(s, t) == SeqLess(CodePoints(s), CodePoints(t))

\* (k1, v1) < (k2, v2): tuples compare element by element
TupleLess(a, b) ==
    \/ StrLess(a[1], b[1])
    \/ a[1] = b[1] /\ StrLess(a[2], b[2])

RECURSIVE InsertSorted(_, _)
InsertSorted(x, s) ==
    IF s = <<>> THEN <<x>>
    ELSE IF TupleLess(x, s[1]) THEN <<x>> \o s
    ELSE <<s[1]>> \o InsertSorted(x, Tail(s))

\* sorted(items) for a list of (key, value) tuples
RECURSIVE Sorted(_)
Sorted(items) ==
    IF items = <<>> THEN <<>>
    ELSE InsertSorted(items[Len(items)], Sorted(SubSeq(items, 1, Len(items) - 1)))

\* sep.join(tokens)
RECURSIVE Join(_, _)
Join(sep, tokens) ==
    IF tokens = <<>> THEN <<>>
    ELSE IF Len(tokens) = 1 THEN tokens[1]
    ELSE tokens[1] \o sep \o Join(sep, Tail(tokens))

\* a dict is the sequence of its (key, value) items in insertion order
HasKey(d, k) == \E i \in 1..Len(d) : d[i][1] = k
Lookup(d, k) == d[CHOOSE i \in 1..Len(d) : d[i][1] = k][2]

Min(a, b) == IF a < b THEN a ELSE b

(***************************************************************************)
(* Outcomes of a call.                                                     *)
(***************************************************************************)
NoResult == [status |-> "none"]
Returned(text) == [status |-> "returned", text |-> text]
Yielded(pieces) == [status |-> "exhausted", pieces |-> pieces]
Raised(exc, pieces) == [status |-> "raised", exc |-> exc, pieces |-> pieces]

NoObj == [cls |-> "none"]

(***************************************************************************)
(* Property blocks.                                                        *)
(***************************************************************************)
PropToken(item) == <<" ", " ", "'", item[1], "'", "=", "'", item[2], "'">>

\* mutant: the entries in the dict's own order, not sorted
format_properties_unsorted(props) ==
    LET tokens == [i \in 1..Len(props) |-> PropToken(props[i])]
    IN  <<"(", "\n">> \o Join(<<",", "\n">>, tokens) \o <<"\n", ")">>

_format_properties(props) ==
    LET items == Sorted(props)
        tokens == [i \in 1..Len(items) |-> PropToken(items[i])]
    IN  <<"(", "\n">> \o Join(<<",", "\n">>, tokens) \o <<"\n", ")">>

format_tblproperties(props) ==
    <<"TBLPROPERTIES", " ">> \o _format_properties(props)

_serdeproperties(props) ==
    <<"SERDEPROPERTIES", " ">> \o _format_properties(props)

PropKeys == {"B", "a", "ab", "b"}
PropValues == {"x", "y"}

\* the dicts of at most n entries: distinct keys, any insertion order
PropMaps(n) ==
    UNION {{d \in [1..len -> PropKeys \X PropValues] :
               \A i, j \in 1..len : i # j => d[i][1] # d[j][1]} : len \in 0..n}

CallFormatTblproperties ==
    /\ obj = NoObj
    /\ \E props \in PropMaps(MaxProps) :
          /\ obj' = [cls |-> "format_tblproperties", props |-> props]
          /\ result' = Returned(format_tblproperties(props))

CallSerdeproperties ==
    /\ obj = NoObj
    /\ \E props \in PropMaps(MaxProps) :
          /\ obj' = [cls |-> "_serdeproperties", props |-> props]
          /\ result' = Returned(_serdeproperties(props))

(***************************************************************************)
(* Partition specs.                                                        *)
(***************************************************************************)
dt_string == "string"
dt_int32 == "int32"

\* mutant: quotes by the runtime kind of the value, not by the declared type
format_partition_kv_by_value(k, v, type) ==
    LET value_formatted ==
            IF v.kind = "str"
            THEN <<"\"">> \o PyStr(v) \o <<"\"">>
            ELSE PyStr(v)
    IN  <<k, "=">> \o value_formatted

_format_partition_kv(k, v, type) ==
    LET value_formatted ==
            IF type = dt_string
            THEN <<"\"">> \o PyStr(v) \o <<"\"">>
            ELSE PyStr(v)
    IN  <<k, "=">> \o value_formatted

\* partition_schema[name]
SchemaType(partition_schema, name) ==
    partition_schema[CHOOSE i \in 1..Len(partition_schema) :
                        partition_schema[i].name = name].type

DictPartition(entries) == [kind |-> "dict", entries |-> entries, values |-> <<>>]
ListPartition(values) == [kind |-> "list", entries |-> <<>>, values |-> values]

\* mutant: a mapping spec is walked in its own key order, and a column it
\* does not name gets no token
format_partition_spec_order(partition, partition_schema) ==
    LET known == SelectSeq(partition.entries,
                           LAMBDA e : \E i \in 1..Len(partition_schema) :
                                          partition_schema[i].name = e[1])
        tokens ==
            IF partition.kind = "dict"
            THEN [i \in 1..Len(known) |->
                    _format_partition_kv(
                        known[i][1], known[i][2],
                        SchemaType(partition_schema, known[i][1]))]
            ELSE [i \in 1..Min(Len(partition_schema), Len(partition.values)) |->
                    _format_partition_kv(
                        partition_schema[i].name, partition.values[i],
                        partition_schema[i].type)]
    IN  <<"PARTITION", " ", "(">> \o Join(<<",", " ">>, tokens) \o <<")">>

_format_partition(partition, partition_schema) ==
    LET tokens ==
            IF partition.kind = "dict"
            THEN [i \in 1..Len(partition_schema) |->
                    LET name == partition_schema[i].name
                    IN  IF HasKey(partition.entries, name)
                        THEN _format_partition_kv(
                                 name, Lookup(partition.entries, name),
                                 SchemaType(partition_schema, name))
                        ELSE <<name>>]
            ELSE [i \in 1..Min(Len(partition_schema), Len(partition.values)) |->
                    LET name == partition_schema[i].name
                    IN  _format_partition_kv(
                            name, partition.values[i],
                            SchemaType(partition_schema, name))]
    IN  <<"PARTITION", " ", "(">> \o Join(<<",", " ">>, tokens) \o <<")">>

ColNames == {"year", "month", "region"}
ColTypes == {dt_string, dt_int32}
SpecKeys == ColNames \cup {"day"}
SpecValues == {PyInt(5), PyInt(12), PyString("2020-01-01")}

\* ordered mappings of distinct column names to types
Schemas(n) ==
    UNION {{s \in [1..len -> [name : ColNames, type : ColTypes]] :
               \A i, j \in 1..len : i # j => s[i].name # s[j].name} : len \in 0..n}

DictSpecs(n) ==
    UNION {{d \in [1..len -> SpecKeys \X SpecValues] :
               \A i, j \in 1..len : i # j => d[i][1] # d[j][1]} : len \in 0..n}

ListSpecs(n) == UNION {[1..len -> SpecValues] : len \in 0..n}

PartitionSpecs(n) ==
    {DictPartition(d) : d \in DictSpecs(n)} \cup {ListPartition(l) : l \in ListSpecs(n)}

CallFormatPartition ==
    /\ obj = NoObj
    /\ \E partition \in PartitionSpecs(MaxSpec), partition_schema \in Schemas(MaxCols) :
          /\ obj' = [cls |-> "_format_partition", partition |-> partition,
                     partition_schema |-> partition_schema]
          /\ result' = Returned(_format_partition(partition, partition_schema))

(***************************************************************************)
(* Collaborators defined outside ibis/impala/ddl.py.                       *)
(***************************************************************************)
\* BaseQualifiedSQLStatement._get_scoped_name / BaseDDL._get_scoped_name
_get_scoped_name(obj_name, database) ==
    IF IsNone(database) THEN <<obj_name>> ELSE <<Get(database), ".", obj_name>>

\* the dialect spelling of a data type
type_to_sql_string(type) ==
    CASE type = "string" -> "string"
      [] type = "int32" -> "int"
      [] type = "int64" -> "bigint"
      [] type = "double" -> "double"

\* the file format as the statements spell it; None stays None
_sanitize_format(format) ==
    IF IsNone(format) THEN None
    ELSE Some(CASE Get(format) = "parquet" -> "PARQUET"
                [] Get(format) = "PARQUET" -> "PARQUET"
                [] Get(format) = "avro" -> "AVRO")

\* the column list of a schema
format_schema(schema) ==
    <<"(">> \o Join(<<",", "\n">>,
                    [i \in 1..Len(schema) |->
                        <<schema[i].name, " ", type_to_sql_string(schema[i].type)>>])
        \o <<")">>

\* CreateTable._storage and CreateTable._location
CreateTable_storage(self) == <<"STORED", " ", "AS", " ", self.format>>
CreateTable_location(self) == <<"LOCATION", " ", "'", self.path, "'">>

(***************************************************************************)
(* CreateTableParquet.                                                     *)
(***************************************************************************)
Paths == {"/data"}
ExampleFiles == {"/f.parq"}
ExampleTables == {"db.like_t"}
TableSchemas == {<<[name |-> "a", type |-> "int32"], [name |-> "b", type |-> "string"]>>}
Opt(S) == {None} \cup {Some(x) : x \in S}

NewCreateTableParquet ==
    /\ obj = NoObj
    /\ \E path \in Paths, example_file \in Opt(ExampleFiles),
          example_table \in Opt(ExampleTables), schema \in Opt(TableSchemas),
          external \in BOOLEAN :
          obj' = [cls |-> "CreateTableParquet", table_name |-> "t",
                  external |-> external, format |-> "parquet", path |-> path,
                  example_file |-> example_file, example_table |-> example_table,
                  schema |-> schema]
    /\ UNCHANGED result

\* the pieces the generator yields, and how it ends
CreateTableParquet_pieces(self) ==
    IF ~IsNone(self.example_file)
    THEN Yielded(<< <<"LIKE", " ", "PARQUET", " ", "'", Get(self.example_file), "'">>,
                    CreateTable_storage(self), CreateTable_location(self) >>)
    ELSE IF ~IsNone(self.example_table)
    THEN Yielded(<< <<"LIKE", " ", Get(self.example_table)>>,
                    CreateTable_storage(self), CreateTable_location(self) >>)
    ELSE IF ~IsNone(self.schema)
    THEN Yielded(<< format_schema(Get(self.schema)),
                    CreateTable_storage(self), CreateTable_location(self) >>)
    ELSE Raised("NotImplementedError", <<>>)

CreateTableParquetPieces ==
    /\ obj.cls = "CreateTableParquet"
    /\ result = NoResult
    /\ result' = CreateTableParquet_pieces(obj)
    /\ UNCHANGED obj

(***************************************************************************)
(* DelimitedFormat.                                                        *)
(***************************************************************************)
Delimiters == {",", "|"}
EscapeChars == {"\\"}
LineTerminators == {"\\n"}
NaReps == {"NULL", "NA"}

NewDelimitedFormat ==
    /\ obj = NoObj
    /\ \E path \in Paths, delimiter \in Opt(Delimiters),
          escapechar \in Opt(EscapeChars), na_rep \in Opt(NaReps),
          lineterminator \in Opt(LineTerminators) :
          obj' = [cls |-> "DelimitedFormat", path |-> path, delimiter |-> delimiter,
                  escapechar |-> escapechar, lineterminator |-> lineterminator,
                  na_rep |-> na_rep]
    /\ UNCHANGED result

\* a clause that is yielded only when its option is configured
YieldIf(cond, piece) == IF cond THEN <<piece>> ELSE <<>>

\* mutant: LOCATION is yielded before LINES TERMINATED BY
DelimitedFormat_to_ddl_location_early(self) ==
    Yielded(
        << <<"ROW", " ", "FORMAT", " ", "DELIMITED">> >>
        \o YieldIf(~IsNone(self.delimiter),
                   <<"FIELDS", " ", "TERMINATED", " ", "BY", " ", "'",
                     Get(self.delimiter), "'">>)
        \o YieldIf(~IsNone(self.escapechar),
                   <<"ESCAPED", " ", "BY", " ", "'", Get(self.escapechar), "'">>)
        \o << <<"LOCATION", " ", "'", self.path, "'">> >>
        \o YieldIf(~IsNone(self.lineterminator),
                   <<"LINES", " ", "TERMINATED", " ", "BY", " ", "'",
                     Get(self.lineterminator), "'">>)
        \o YieldIf(~IsNone(self.na_rep),
                   format_tblproperties(
                       << <<"serialization.null.format", Get(self.na_rep)>> >>)))

DelimitedFormat_to_ddl(self) ==
    Yielded(
        << <<"ROW", " ", "FORMAT", " ", "DELIMITED">> >>
        \o YieldIf(~IsNone(self.delimiter),
                   <<"FIELDS", " ", "TERMINATED", " ", "BY", " ", "'",
                     Get(self.delimiter), "'">>)
        \o YieldIf(~IsNone(self.escapechar),
                   <<"ESCAPED", " ", "BY", " ", "'", Get(self.escapechar), "'">>)
        \o YieldIf(~IsNone(self.lineterminator),
                   <<"LINES", " ", "TERMINATED", " ", "BY", " ", "'",
                     Get(self.lineterminator), "'">>)
        \o << <<"LOCATION", " ", "'", self.path, "'">> >>
        \o YieldIf(~IsNone(self.na_rep),
                   format_tblproperties(
                       << <<"serialization.null.format", Get(self.na_rep)>> >>)))

DelimitedFormatToDdl ==
    /\ obj.cls = "DelimitedFormat"
    /\ result = NoResult
    /\ result' = DelimitedFormat_to_ddl(obj)
    /\ UNCHANGED obj

(***************************************************************************)
(* InsertSelect.                                                           *)
(***************************************************************************)
TableNames == {"t"}
Databases == {"db"}
SelectTexts == {"SELECT *\nFROM s"}

\* a partition spec with the schema it is read against, or no partition
StmtPartitions ==
    {[partition |-> None, partition_schema |-> None]} \cup
    {[partition |-> Some(p), partition_schema |-> Some(ps)] :
        p \in PartitionSpecs(MaxStmtSpec), ps \in Schemas(MaxStmtCols)}

NewInsertSelect ==
    /\ obj = NoObj
    /\ \E table_name \in TableNames, select_expr \in SelectTexts,
          database \in Opt(Databases), part \in StmtPartitions,
          overwrite \in BOOLEAN :
          obj' = [cls |-> "InsertSelect", table_name |-> table_name,
                  database |-> database, select |-> select_expr,
                  partition |-> part.partition,
                  partition_schema |-> part.partition_schema,
                  overwrite |-> overwrite]
    /\ UNCHANGED result

InsertSelect_compile(self) ==
    LET cmd == IF self.overwrite
               THEN <<"INSERT", " ", "OVERWRITE">>
               ELSE <<"INSERT", " ", "INTO">>
        partition ==
            IF ~IsNone(self.partition)
            THEN <<" ">> \o _format_partition(Get(self.partition),
                                              Get(self.partition_schema))
                         \o <<" ">>
            ELSE <<>>
        select_query == <<self.select>>
        scoped_name == _get_scoped_name(self.table_name, self.database)
    IN  Returned(cmd \o <<" ">> \o scoped_name \o partition \o <<"\n">> \o select_query)

InsertSelectCompile ==
    /\ obj.cls = "InsertSelect"
    /\ result = NoResult
    /\ result' = InsertSelect_compile(obj)
    /\ UNCHANGED obj

(***************************************************************************)
(* AlterTable and the partition statements.                                *)
(***************************************************************************)
Locations == {"/loc"}
Formats == {"parquet", "avro"}
Tables == {"tbl"}

NewAlterTable ==
    /\ obj = NoObj
    /\ \E table \in Tables, location \in Opt(Locations), format \in Opt(Formats),
          tbl_properties \in Opt(PropMaps(MaxAlterProps)),
          serde_properties \in Opt(PropMaps(MaxAlterProps)) :
          obj' = [cls |-> "AlterTable", table |-> table, location |-> location,
                  format |-> _sanitize_format(format),
                  tbl_properties |-> tbl_properties,
                  serde_properties |-> serde_properties]
    /\ UNCHANGED result

AlterTable_wrap_command(self, cmd) == <<"ALTER", " ", "TABLE", " ">> \o cmd

\* AlterTable._format_properties(self, prefix)
AlterTable_format_properties(self, prefix) ==
    LET tokens ==
            YieldIf(~IsNone(self.location),
                    <<"LOCATION", " ", "'", Get(self.location), "'">>)
            \o YieldIf(~IsNone(self.format), <<"FILEFORMAT", " ", Get(self.format)>>)
            \o YieldIf(~IsNone(self.tbl_properties),
                       format_tblproperties(Get(self.tbl_properties)))
            \o YieldIf(~IsNone(self.serde_properties),
                       _serdeproperties(Get(self.serde_properties)))
    IN  IF Len(tokens) > 0
        THEN <<"\n">> \o prefix \o Join(<<"\n">>, tokens)
        ELSE <<>>

AlterTable_compile(self) ==
    LET props == AlterTable_format_properties(self, <<>>)
        action == <<self.table, " ", "SET", " ">> \o props
    IN  Returned(AlterTable_wrap_command(self, action))

AlterTableCompile ==
    /\ obj.cls = "AlterTable"
    /\ result = NoResult
    /\ result' = AlterTable_compile(obj)
    /\ UNCHANGED obj

NewAddPartition ==
    /\ obj = NoObj
    /\ \E table \in Tables, location \in Opt(Locations),
          partition \in PartitionSpecs(MaxStmtSpec),
          partition_schema \in Schemas(MaxStmtCols) :
          obj' = [cls |-> "AddPartition", table |-> table, location |-> location,
                  format |-> _sanitize_format(None), tbl_properties |-> None,
                  serde_properties |-> None, partition |-> partition,
                  partition_schema |-> partition_schema]
    /\ UNCHANGED result

PartitionProperties_compile(self, cmd, property_prefix) ==
    LET part0 == _format_partition(self.partition, self.partition_schema)
        part == IF cmd # <<>> THEN cmd \o <<" ">> \o part0 ELSE part0
        props == AlterTable_format_properties(self, property_prefix)
        action == <<self.table, " ">> \o part \o props
    IN  Returned(AlterTable_wrap_command(self, action))

AddPartition_compile(self) == PartitionProperties_compile(self, <<"ADD">>, <<>>)

AddPartitionCompile ==
    /\ obj.cls = "AddPartition"
    /\ result = NoResult
    /\ result' = AddPartition_compile(obj)
    /\ UNCHANGED obj

(***************************************************************************)
(* Function statements.                                                    *)
(***************************************************************************)
_impala_input_signature(inputs) ==
    Join(<<",", " ">>, [i \in 1..Len(inputs) |-> <<type_to_sql_string(inputs[i])>>])

FuncNames == {"f"}
InputTypes == {"int32", "string"}
OutputTypes == {"double"}
InputLists(n) == UNION {[1..len -> InputTypes] : len \in 0..n}

\* inputs are data types already, which dt.dtype returns unchanged
NewDropFunction ==
    /\ obj = NoObj
    /\ \E name \in FuncNames, inputs \in InputLists(MaxInputs),
          must_exist \in BOOLEAN, aggregate \in BOOLEAN,
          database \in Opt(Databases) :
          obj' = [cls |-> "DropFunction", name |-> name, inputs |-> inputs,
                  must_exist |-> must_exist, aggregate |-> aggregate,
                  database |-> database]
    /\ UNCHANGED result

DropFunction_impala_signature(self) ==
    LET full_name == _get_scoped_name(self.name, self.database)
        input_sig == _impala_input_signature(self.inputs)
    IN  full_name \o <<"(">> \o input_sig \o <<")">>

\* mutant: IF EXISTS is emitted when the function must exist
DropFunction_compile_if_exists_flipped(self) ==
    LET tokens ==
            << <<"DROP">> >>
            \o YieldIf(self.aggregate, <<"AGGREGATE">>)
            \o << <<"FUNCTION">> >>
            \o YieldIf(self.must_exist, <<"IF", " ", "EXISTS">>)
            \o << DropFunction_impala_signature(self) >>
    IN  Returned(Join(<<" ">>, tokens))

DropFunction_compile(self) ==
    LET tokens ==
            << <<"DROP">> >>
            \o YieldIf(self.aggregate, <<"AGGREGATE">>)
            \o << <<"FUNCTION">> >>
            \o YieldIf(~self.must_exist, <<"IF", " ", "EXISTS">>)
            \o << DropFunction_impala_signature(self) >>
    IN  Returned(Join(<<" ">>, tokens))

DropFunctionCompile ==
    /\ obj.cls = "DropFunction"
    /\ result = NoResult
    /\ result' = DropFunction_compile(obj)
    /\ UNCHANGED obj

LibPaths == {"/lib.so"}
fn_names == <<"init_fn", "update_fn", "merge_fn", "serialize_fn", "finalize_fn">>
\* the symbol a phase is given when it is configured
PhaseSymbol(fn) ==
    CASE fn = "init_fn" -> "Init"
      [] fn = "update_fn" -> "Update"
      [] fn = "merge_fn" -> "Merge"
      [] fn = "serialize_fn" -> "Serialize"
      [] fn = "finalize_fn" -> "Finalize"

\* the aggregate function descriptors: every subset of the phases configured
AggFuncs ==
    {[name |-> "agg", inputs |-> inputs, output |-> output, lib_path |-> lib_path,
      fns |-> [i \in 1..Len(fn_names) |->
                  IF fn_names[i] \in configured
                  THEN Some(PhaseSymbol(fn_names[i])) ELSE None]] :
        inputs \in InputLists(MaxInputs), output \in OutputTypes,
        lib_path \in LibPaths,
        configured \in SUBSET {fn_names[i] : i \in 1..Len(fn_names)}}

\* `name or func.name`: None and the empty string give the function's name
NewCreateUDA ==
    /\ obj = NoObj
    /\ \E func \in AggFuncs, name \in Opt(FuncNames), database \in Opt(Databases) :
          obj' = [cls |-> "CreateUDA", func |-> func,
                  name |-> IF IsNone(name) THEN func.name ELSE Get(name),
                  database |-> database]
    /\ UNCHANGED result

CreateFunction_impala_signature(self) ==
    LET scoped_name == _get_scoped_name(self.name, self.database)
        input_sig == _impala_input_signature(self.func.inputs)
        output_sig == <<type_to_sql_string(self.func.output)>>
    IN  scoped_name \o <<"(">> \o input_sig \o <<")", " ", "returns", " ">> \o output_sig

\* getattr(self.func, fn)
FuncAttr(func, i) == func.fns[i]

\* mutant: an absent phase is emitted too, as phase='None'
CreateUDA_compile_emits_absent(self) ==
    LET create_decl == <<"CREATE", " ", "AGGREGATE", " ", "FUNCTION">>
        impala_sig == CreateFunction_impala_signature(self)
        phases == [i \in 1..Len(fn_names) |->
                      <<fn_names[i], "=", "'",
                        IF IsNone(FuncAttr(self.func, i)) THEN "None"
                        ELSE Get(FuncAttr(self.func, i)), "'">>]
        tokens == << <<"location", " ", "'", self.func.lib_path, "'">> >> \o phases
    IN  Returned(Join(<<" ">>, <<create_decl, impala_sig>>) \o <<" ">>
                 \o Join(<<"\n">>, tokens))

CreateUDA_compile(self) ==
    LET create_decl == <<"CREATE", " ", "AGGREGATE", " ", "FUNCTION">>
        impala_sig == CreateFunction_impala_signature(self)
        configured == SelectSeq([i \in 1..Len(fn_names) |-> i],
                                LAMBDA i : ~IsNone(FuncAttr(self.func, i)))
        phases == [j \in 1..Len(configured) |->
                      <<fn_names[configured[j]], "=", "'",
                        Get(FuncAttr(self.func, configured[j])), "'">>]
        tokens == << <<"location", " ", "'", self.func.lib_path, "'">> >> \o phases
    IN  Returned(Join(<<" ">>, <<create_decl, impala_sig>>) \o <<" ">>
                 \o Join(<<"\n">>, tokens))

CreateUDACompile ==
    /\ obj.cls = "CreateUDA"
    /\ result = NoResult
    /\ result' = CreateUDA_compile(obj)
    /\ UNCHANGED obj

(***************************************************************************)
(* Reading a generated text back.                                          *)
(***************************************************************************)
\* the pieces of a text between its ", " separators
RECURSIVE SplitTokens(_)
SplitTokens(t) ==
    IF t = <<>> THEN <<>>
    ELSE LET seps == {i \in 1..(Len(t) - 1) : t[i] = "," /\ t[i + 1] = " "}
         IN  IF seps = {} THEN <<t>>
             ELSE LET i == CHOOSE k \in seps : \A m \in seps : k <= m
                  IN  <<SubSeq(t, 1, i - 1)>> \o SplitTokens(SubSeq(t, i + 2, Len(t)))

\* the tokens between the parentheses of a PARTITION clause
ClauseTokens(t) == SplitTokens(SubSeq(t, 4, Len(t) - 1))

IsPartitionClause(t) ==
    /\ Len(t) >= 4
    /\ SubSeq(t, 1, 3) = <<"PARTITION", " ", "(">>
    /\ t[Len(t)] = ")"

\* the literal of a col=literal token
Literal(tok) == SubSeq(tok, 3, Len(tok))
Quoted(text) == <<"\"">> \o text \o <<"\"">>
IsQuoted(text) == Len(text) >= 2 /\ text[1] = "\"" /\ text[Len(text)] = "\""

FormatPartitionCalled == obj.cls = "_format_partition" /\ result # NoResult

(***************************************************************************)
(* Specification.                                                          *)
(***************************************************************************)
Init ==
    /\ obj = NoObj
    /\ result = NoResult

Next ==
    \/ CallFormatTblproperties
    \/ CallSerdeproperties
    \/ CallFormatPartition
    \/ NewCreateTableParquet
    \/ CreateTableParquetPieces
    \/ NewDelimitedFormat
    \/ DelimitedFormatToDdl
    \/ NewInsertSelect
    \/ InsertSelectCompile
    \/ NewAlterTable
    \/ AlterTableCompile
    \/ NewAddPartition
    \/ AddPartitionCompile
    \/ NewDropFunction
    \/ DropFunctionCompile
    \/ NewCreateUDA
    \/ CreateUDACompile

Spec == Init /\ [][Next]_vars

(***************************************************************************)
(* Claims about the partition-spec formatter.                              *)
(***************************************************************************)
\* C1: for a mapping partition spec, _format_partition emits exactly one
\* token per partition-schema column, in the schema's declared order whatever
\* the order of the spec's keys: `col=literal` for a column that is a key of
\* the spec, the bare column name for a column that is not; a spec key that
\* is no schema column contributes no token.
C1_MappingSpecFollowsSchema ==
    (FormatPartitionCalled /\ obj.partition.kind = "dict") =>
        /\ result.status = "returned"
        /\ IsPartitionClause(result.text)
        /\ LET toks == ClauseTokens(result.text)
               schema == obj.partition_schema
               entries == obj.partition.entries
           IN  /\ Len(toks) = Len(schema)
               /\ \A i \in 1..Len(schema) :
                     IF \E e \in 1..Len(entries) : entries[e][1] = schema[i].name
                     THEN /\ Len(toks[i]) >= 3
                          /\ toks[i][1] = schema[i].name
                          /\ toks[i][2] = "="
                          /\ \E e \in 1..Len(entries) :
                                /\ entries[e][1] = schema[i].name
                                /\ Literal(toks[i]) \in
                                       {PyStr(entries[e][2]), Quoted(PyStr(entries[e][2]))}
                     ELSE toks[i] = <<schema[i].name>>

\* C1 witness: a spec that names the third schema column, a key that is no
\* schema column and the first schema column, in that order; the second
\* schema column is dynamic
C1_Witness ==
    /\ FormatPartitionCalled
    /\ obj.partition.kind = "dict"
    /\ Len(obj.partition_schema) = 3
    /\ Len(obj.partition.entries) = 3
    /\ obj.partition.entries[1][1] = obj.partition_schema[3].name
    /\ obj.partition.entries[2][1] = "day"
    /\ obj.partition.entries[3][1] = obj.partition_schema[1].name
    /\ result.status = "returned"
    /\ Len(ClauseTokens(result.text)) = 3
    /\ ClauseTokens(result.text)[2] = <<obj.partition_schema[2].name>>

\* C2: for a positional partition spec the values are matched 1:1 against the
\* schema's declared order, and a spec whose length differs from the number
\* of schema columns makes the call fail instead of returning a clause.
C2_LengthMismatchFails ==
    (/\ FormatPartitionCalled
     /\ obj.partition.kind = "list"
     /\ Len(obj.partition.values) # Len(obj.partition_schema))
        => result.status = "raised"

\* the value given for the i-th schema column
ValueFor(i) ==
    IF obj.partition.kind = "dict"
    THEN LET e == CHOOSE k \in 1..Len(obj.partition.entries) :
                      obj.partition.entries[k][1] = obj.partition_schema[i].name
         IN  obj.partition.entries[e][2]
    ELSE obj.partition.values[i]

\* C3: the literal of a partition column is wrapped in double quotes if and
\* only if the column's declared type is the string type; for every other
\* declared type it is the stringified value unquoted, whatever the runtime
\* kind of the value.
C3_QuotedIffStringType ==
    (FormatPartitionCalled /\ result.status = "returned") =>
        LET toks == ClauseTokens(result.text)
            schema == obj.partition_schema
        IN  \A i \in 1..Len(toks) :
                Len(toks[i]) > 1 =>
                    /\ i <= Len(schema)
                    /\ toks[i][1] = schema[i].name
                    /\ IsQuoted(Literal(toks[i])) <=> schema[i].type = dt_string
                    /\ Literal(toks[i]) =
                           IF schema[i].type = dt_string
                           THEN Quoted(PyStr(ValueFor(i)))
                           ELSE PyStr(ValueFor(i))

\* C3 witness: an int given for a string column and a str given for an int
\* column, in one call
C3_Witness ==
    /\ FormatPartitionCalled
    /\ result.status = "returned"
    /\ obj.partition.kind = "list"
    /\ Len(obj.partition.values) = 2
    /\ Len(obj.partition_schema) = 2
    /\ obj.partition_schema[1].type = dt_string
    /\ obj.partition.values[1].kind = "int"
    /\ obj.partition_schema[2].type = dt_int32
    /\ obj.partition.values[2].kind = "str"

(***************************************************************************)
(* Claims about the property-block serializer.                             *)
(***************************************************************************)
PropertiesCalled ==
    obj.cls \in {"format_tblproperties", "_serdeproperties"} /\ result # NoResult

\* the i-th entry of a property block, and its key and value
BlockEntry(block, i) == SubSeq(block, 3 + 11 * (i - 1), 11 + 11 * (i - 1))
BlockKey(block, i) == BlockEntry(block, i)[4]
BlockValue(block, i) == BlockEntry(block, i)[8]

\* C4: a property block has one 'key'='value' entry per map entry, keys in
\* strictly ascending lexicographic order whatever the insertion order,
\* entries separated by a comma and no comma after the last one; maps with
\* the same entries in another insertion order give the same text.
C4_SortedProperties ==
    PropertiesCalled =>
        /\ result.status = "returned"
        /\ LET t == result.text
               n == Len(obj.props)
               block == SubSeq(t, 3, Len(t))
           IN  /\ t[1] = IF obj.cls = "format_tblproperties"
                         THEN "TBLPROPERTIES" ELSE "SERDEPROPERTIES"
               /\ t[2] = " "
               /\ Len(block) = IF n = 0 THEN 4 ELSE 11 * n + 2
               /\ block[1] = "(" /\ block[2] = "\n"
               /\ block[Len(block) - 1] = "\n" /\ block[Len(block)] = ")"
               /\ \A i \in 1..n :
                     BlockEntry(block, i) =
                         <<" ", " ", "'", BlockKey(block, i), "'", "=", "'",
                           BlockValue(block, i), "'">>
               /\ \A i \in 1..(n - 1) :
                     /\ block[12 + 11 * (i - 1)] = ","
                     /\ block[13 + 11 * (i - 1)] = "\n"
                     /\ StrLess(BlockKey(block, i), BlockKey(block, i + 1))
               /\ {<<BlockKey(block, i), BlockValue(block, i)>> : i \in 1..n}
                      = {obj.props[i] : i \in 1..n}
               /\ \A other \in PropMaps(n) :
                     {other[i] : i \in 1..Len(other)} = {obj.props[i] : i \in 1..n}
                         => _format_properties(other) = block

\* C4 witness: three entries inserted in descending key order
C4_Witness ==
    /\ PropertiesCalled
    /\ result.status = "returned"
    /\ Len(obj.props) = 3
    /\ StrLess(obj.props[2][1], obj.props[1][1])
    /\ StrLess(obj.props[3][1], obj.props[2][1])

(***************************************************************************)
(* Claims about the statements.                                            *)
(***************************************************************************)
\* the number of schema sources a CreateTableParquet is configured with
SourcesGiven(self) ==
    Cardinality({k \in {"example_file", "example_table", "schema"} : ~IsNone(self[k])})

\* C5: a CreateTableParquet configured with none, two or three of
\* {example_file, example_table, schema} is a configuration error: generating
\* its pieces fails and yields no statement text.
C5_ExactlyOneSource ==
    (/\ obj.cls = "CreateTableParquet"
     /\ result # NoResult
     /\ SourcesGiven(obj) # 1)
        => (result.status = "raised" /\ result.pieces = <<>>)

\* C6: InsertSelect.compile returns `INSERT INTO` or `INSERT OVERWRITE`, a
\* space, the scoped table name, then, only with a partition spec, a space and
\* the PARTITION clause, then immediately a newline and the select text.
C6_InsertSelectShape ==
    (obj.cls = "InsertSelect" /\ result # NoResult) =>
        /\ result.status = "returned"
        /\ result.text =
               <<"INSERT", " ", IF obj.overwrite THEN "OVERWRITE" ELSE "INTO", " ">>
               \o (IF IsNone(obj.database) THEN <<obj.table_name>>
                   ELSE <<Get(obj.database), ".", obj.table_name>>)
               \o (IF IsNone(obj.partition) THEN <<>>
                   ELSE <<" ">> \o _format_partition(Get(obj.partition),
                                                     Get(obj.partition_schema)))
               \o <<"\n", obj.select>>

\* the head keyword of each yielded clause
Heads(pieces) == [i \in 1..Len(pieces) |-> pieces[i][1]]

ClauseRank(head) ==
    CASE head = "ROW" -> 1
      [] head = "FIELDS" -> 2
      [] head = "ESCAPED" -> 3
      [] head = "LINES" -> 4
      [] head = "LOCATION" -> 5
      [] head = "TBLPROPERTIES" -> 6
      [] OTHER -> 0

\* an optional clause is yielded, with its value, iff the option is configured
ClauseIff(pieces, option, head, clause) ==
    IF IsNone(option)
    THEN \A i \in 1..Len(pieces) : pieces[i][1] # head
    ELSE \E i \in 1..Len(pieces) : pieces[i] = clause

\* C7: DelimitedFormat.to_ddl yields ROW FORMAT DELIMITED first, then FIELDS
\* TERMINATED BY, ESCAPED BY, LINES TERMINATED BY in that order, each iff its
\* option is configured, then LOCATION exactly once, then a TBLPROPERTIES
\* block carrying serialization.null.format iff na_rep is configured, and
\* nothing else after LOCATION.
C7_DelimitedClauseOrder ==
    (obj.cls = "DelimitedFormat" /\ result # NoResult) =>
        /\ result.status = "exhausted"
        /\ LET p == result.pieces
               h == Heads(p)
           IN  /\ Len(p) >= 2
               /\ p[1] = <<"ROW", " ", "FORMAT", " ", "DELIMITED">>
               /\ \A i \in 1..Len(p) : ClauseRank(h[i]) > 0
               /\ \A i, j \in 1..Len(p) : i < j => ClauseRank(h[i]) < ClauseRank(h[j])
               /\ ClauseIff(p, obj.delimiter, "FIELDS",
                            <<"FIELDS", " ", "TERMINATED", " ", "BY", " ", "'">>
                            \o obj.delimiter \o <<"'">>)
               /\ ClauseIff(p, obj.escapechar, "ESCAPED",
                            <<"ESCAPED", " ", "BY", " ", "'">>
                            \o obj.escapechar \o <<"'">>)
               /\ ClauseIff(p, obj.lineterminator, "LINES",
                            <<"LINES", " ", "TERMINATED", " ", "BY", " ", "'">>
                            \o obj.lineterminator \o <<"'">>)
               /\ Cardinality({i \in 1..Len(p) : h[i] = "LOCATION"}) = 1
               /\ \E i \in 1..Len(p) :
                     /\ p[i] = <<"LOCATION", " ", "'", obj.path, "'">>
                     /\ \A j \in (i + 1)..Len(p) : h[j] = "TBLPROPERTIES"
               /\ ClauseIff(p, obj.na_rep, "TBLPROPERTIES",
                            <<"TBLPROPERTIES", " ", "(", "\n", " ", " ", "'",
                              "serialization.null.format", "'", "=", "'">>
                            \o obj.na_rep \o <<"'", "\n", ")">>)

\* C7 witness: lineterminator and na_rep configured, delimiter and escapechar
\* not
C7_Witness ==
    /\ obj.cls = "DelimitedFormat"
    /\ result.status = "exhausted"
    /\ IsNone(obj.delimiter) /\ IsNone(obj.escapechar)
    /\ ~IsNone(obj.lineterminator) /\ ~IsNone(obj.na_rep)
    /\ Heads(result.pieces) = <<"ROW", "LINES", "LOCATION", "TBLPROPERTIES">>

\* the lexemes of a signature's type list: spellings separated by ", "
IsTypeList(text, inputs) ==
    /\ Len(text) = IF Len(inputs) = 0 THEN 0 ELSE 3 * Len(inputs) - 2
    /\ \A i \in 1..Len(inputs) : text[3 * i - 2] = type_to_sql_string(inputs[i])
    /\ \A i \in 1..(Len(inputs) - 1) : text[3 * i - 1] = "," /\ text[3 * i] = " "

\* C8: DropFunction.compile returns the space-separated tokens DROP,
\* AGGREGATE (iff aggregate), FUNCTION, IF EXISTS (iff not must_exist) and
\* the signature name(types), the name qualified by the database when one
\* is given, the input types in their order separated by ", ".
C8_DropFunctionTokens ==
    (obj.cls = "DropFunction" /\ result # NoResult) =>
        /\ result.status = "returned"
        /\ LET head == <<"DROP">>
                       \o (IF obj.aggregate THEN <<" ", "AGGREGATE">> ELSE <<>>)
                       \o <<" ", "FUNCTION">>
                       \o (IF obj.must_exist THEN <<>> ELSE <<" ", "IF", " ", "EXISTS">>)
                       \o <<" ">>
                       \o (IF IsNone(obj.database) THEN <<obj.name>>
                           ELSE <<Get(obj.database), ".", obj.name>>)
                       \o <<"(">>
               t == result.text
           IN  /\ Len(t) > Len(head)
               /\ SubSeq(t, 1, Len(head)) = head
               /\ t[Len(t)] = ")"
               /\ IsTypeList(SubSeq(t, Len(head) + 1, Len(t) - 1), obj.inputs)

\* C8 witness: DROP AGGREGATE FUNCTION IF EXISTS db.f(int, int)
C8_Witness ==
    /\ obj.cls = "DropFunction"
    /\ obj.aggregate /\ ~obj.must_exist
    /\ result.status = "returned"
    /\ result.text = <<"DROP", " ", "AGGREGATE", " ", "FUNCTION", " ", "IF", " ",
                       "EXISTS", " ", "db", ".", "f", "(", "int", ",", " ", "int", ")">>

\* the order of the phases the claim fixes
PhaseOrder == <<"init_fn", "update_fn", "merge_fn", "serialize_fn", "finalize_fn">>
PhaseRank(fn) == CHOOSE i \in 1..Len(PhaseOrder) : PhaseOrder[i] = fn
IsPhase(fn) == \E i \in 1..Len(PhaseOrder) : PhaseOrder[i] = fn

\* what follows the location clause of a compiled CreateUDA
AfterLocation(t) ==
    LET at == CHOOSE i \in 1..Len(t) : t[i] = "location"
    IN  SubSeq(t, at + 5, Len(t))

\* the j-th phase assignment, with the newline that precedes it
Assignment(tail, j) == SubSeq(tail, 6 * j - 5, 6 * j)

\* C9: after `location 'lib'` CreateUDA.compile emits one phase='symbol'
\* assignment for each configured phase and none for an absent one, in the
\* order init, update, merge, serialize, finalize; with no phase configured
\* the statement ends with the location clause.
C9_ConfiguredPhasesOnly ==
    (obj.cls = "CreateUDA" /\ result # NoResult) =>
        /\ result.status = "returned"
        /\ LET t == result.text
               configured == {i \in 1..Len(PhaseOrder) : ~IsNone(obj.func.fns[i])}
               tail == AfterLocation(t)
               k == Cardinality(configured)
           IN  /\ SubSeq(t, 1, 5) = <<"CREATE", " ", "AGGREGATE", " ", "FUNCTION">>
               /\ Cardinality({i \in 1..Len(t) : t[i] = "location"}) = 1
               /\ \E at \in 2..(Len(t) - 4) :
                     SubSeq(t, at - 1, at + 4) =
                         <<" ", "location", " ", "'", obj.func.lib_path, "'">>
               /\ Len(tail) = 6 * k
               /\ \A j \in 1..k :
                     LET a == Assignment(tail, j)
                     IN  /\ a[1] = "\n" /\ a[3] = "=" /\ a[4] = "'" /\ a[6] = "'"
                         /\ IsPhase(a[2])
                         /\ PhaseRank(a[2]) \in configured
                         /\ a[5] = Get(obj.func.fns[PhaseRank(a[2])])
               /\ \A j \in 1..(k - 1) :
                     PhaseRank(Assignment(tail, j)[2])
                         < PhaseRank(Assignment(tail, j + 1)[2])

\* C9 witness: init, merge and finalize configured, update and serialize not
C9_Witness ==
    /\ obj.cls = "CreateUDA"
    /\ result.status = "returned"
    /\ ~IsNone(obj.func.fns[1]) /\ IsNone(obj.func.fns[2])
    /\ ~IsNone(obj.func.fns[3]) /\ IsNone(obj.func.fns[4])
    /\ ~IsNone(obj.func.fns[5])
    /\ AfterLocation(result.text) =
           <<"\n", "init_fn", "=", "'", "Init", "'",
             "\n", "merge_fn", "=", "'", "Merge", "'",
             "\n", "finalize_fn", "=", "'", "Finalize", "'">>

\* where a clause keyword stands in a text
Positions(t, keyword) == {i \in 1..Len(t) : t[i] = keyword}

\* C10: AlterTable.compile returns `ALTER TABLE <table> SET ` followed by
\* exactly one clause per configured attribute and none for an unconfigured
\* one, in the order LOCATION, FILEFORMAT, TBLPROPERTIES, SERDEPROPERTIES;
\* every compiled AlterTable statement has at least one clause after SET.
C10_AlterTableHasClause ==
    (obj.cls = "AlterTable" /\ result # NoResult) =>
        /\ result.status = "returned"
        /\ LET t == result.text
               loc == Positions(t, "LOCATION")
               fmt == Positions(t, "FILEFORMAT")
               tbl == Positions(t, "TBLPROPERTIES")
               serde == Positions(t, "SERDEPROPERTIES")
           IN  /\ SubSeq(t, 1, 8) = <<"ALTER", " ", "TABLE", " ", obj.table, " ", "SET", " ">>
               /\ Cardinality(loc) = IF IsNone(obj.location) THEN 0 ELSE 1
               /\ Cardinality(fmt) = IF IsNone(obj.format) THEN 0 ELSE 1
               /\ Cardinality(tbl) = IF IsNone(obj.tbl_properties) THEN 0 ELSE 1
               /\ Cardinality(serde) = IF IsNone(obj.serde_properties) THEN 0 ELSE 1
               /\ \A a \in loc, b \in fmt \cup tbl \cup serde : a < b
               /\ \A a \in fmt, b \in tbl \cup serde : a < b
               /\ \A a \in tbl, b \in serde : a < b
               /\ Cardinality(loc \cup fmt \cup tbl \cup serde) >= 1
====
